---- MODULE Spec2Model ----
(***************************************************************************)
(* Model of the bounded, expiring, mutex-guarded cache of 5_sync/main.go.   *)
(* Every handler (Get, Set, Keys, Close) is modelled statement by statement *)
(* between c.mu.Lock() and the deferred c.mu.Unlock(), so that the mutual   *)
(* exclusion is something the model checker establishes, not an assumption. *)
(***************************************************************************)
EXTENDS Integers, Sequences, FiniteSets, TLC

(* ------------------------------ bounds -------------------------------- *)
MaxSize == 2      \* largest capacity handed to New
MaxTtl == 1       \* largest ttl handed to New (clock ticks)
MaxTime == 2      \* the clock stops ticking here
MaxVal == 2       \* values stored by the callers are 1..MaxVal
NumGr == 2        \* goroutines calling the cache
NumKeys == 3      \* distinct keys the callers use
MaxCount == 2     \* Set calls per goroutine in the concurrency check of main

Procs == 1..NumGr
Key == 0..(NumKeys - 1)       \* i of keyName(i)
Value == 0..MaxVal
Ops == {"Get", "Set", "Keys", "Close"}
Free == 0                     \* c.mu unlocked
NoKey == -1                   \* no key

VARIABLES
  made,     \* New returned a cache
  err,      \* the error New returned ("" when none)
  nargs,    \* the arguments New was called with
  size,     \* c.size
  ttl,      \* c.ttl
  m,        \* c.m: function from the stored keys to their Entry
  mnil,     \* c.m == nil (after Close)
  keys,     \* c.keys: insertion-order ledger
  mu,       \* c.mu: Free or the goroutine holding it
  now,      \* the clock read by time.Now / time.Since
  pc,       \* per goroutine: position in the handler it is running
  op,       \* per goroutine: handler being run
  key,      \* per goroutine: the key argument
  val,      \* per goroutine: the value argument
  ent,      \* per goroutine: Get's local copy 'entry'
  tnow,     \* per goroutine: the clock value the handler read
  res,      \* per goroutine: the handler's return value
  pre,      \* history: cache state when the lock was last acquired
  ret,      \* history: the handlers of the returned calls run one after another
  fresh,    \* history: per key, the last Set still standing (value, time)
  ins,      \* history: keys inserted from absence since the last purge/Close
  nins,     \* history: how many such insertions (capped at size + 1)
  ord,      \* history: the stored keys in the order they were inserted from absence
  gone,     \* history: the key removed from the store last (NoKey when none)
  gkey,     \* concurrency check of main: the key of each goroutine
  cnt,      \* concurrency check of main: loop counter i of each goroutine
  wg,       \* concurrency check of main: the WaitGroup counter
  mainpc,   \* concurrency check of main: position of main
  user,     \* NextMovie: the user argument
  left,     \* NextMovie: time left until ctx expires (0: ctx.Done() is closed)
  sleep,    \* BestNextMovie: time left of its time.Sleep
  ch,       \* NextMovie: the buffer of channel ch
  wpc,      \* NextMovie: position of the goroutine running BestNextMovie
  npc,      \* NextMovie: position of the caller
  out,      \* NextMovie: the movie returned
  atexp,    \* history: the result was in ch when ctx expired
  files,    \* ValidateSigs: the files argument
  idx,      \* ValidateSigs: goroutines started by the first loop
  wk,       \* ValidateSigs: position of each signWorker
  reply,    \* ValidateSigs: the Reply each signWorker built
  okFiles,  \* ValidateSigs: okFiles
  badFiles, \* ValidateSigs: badFiles
  okIdx,    \* history: the workers whose replies went to okFiles, in order
  badIdx,   \* history: the workers whose replies went to badFiles, in order
  recvd,    \* ValidateSigs: replies received by the second loop
  vpc,      \* ValidateSigs: position of the caller
  rerr,     \* ValidateSigs: the error returned
  nmatch,   \* producer: the number of files filepath.Glob matched
  globErr,  \* producer: filepath.Glob returned an error
  cancelled,\* worker/producer: ctx.Done() is closed
  jobs,     \* the buffer of channel jobs
  jcap,     \* the capacity of channel jobs
  jclosed,  \* channel jobs is closed
  results,  \* the buffer of channel results
  rcap,     \* the capacity of channel results
  cons,     \* the receiver of results: "recv" or "stopped"
  ppc,      \* producer: position
  pidx,     \* producer: matches sent so far
  perr,     \* producer: the error returned
  rpc,      \* per worker: position
  job,      \* per worker: the job received
  cerr      \* per worker: the error Center returned

cacheVars == <<made, err, nargs, size, ttl, m, mnil, keys, mu, now>>
procVars == <<pc, op, key, val, ent, tnow, res>>
histVars == <<pre, ret, fresh, ins, nins, ord, gone>>
mainVars == <<gkey, cnt, wg, mainpc>>
movieVars == <<user, left, sleep, ch, wpc, npc, out, atexp>>
sigVars == <<files, idx, wk, reply, okFiles, badFiles, okIdx, badIdx, recvd,
             vpc, rerr>>
resizeVars == <<nmatch, globErr, cancelled, jobs, jcap, jclosed, results, rcap,
                cons, ppc, pidx, perr, rpc, job, cerr>>
otherVars == <<movieVars, sigVars, resizeVars>>
vars == <<made, err, nargs, size, ttl, m, mnil, keys, mu, now,
          pc, op, key, val, ent, tnow, res,
          pre, ret, fresh, ins, nins, ord, gone, gkey, cnt, wg, mainpc,
          user, left, sleep, ch, wpc, npc, out, atexp,
          files, idx, wk, reply, okFiles, badFiles, okIdx, badIdx, recvd, vpc,
          rerr, nmatch, globErr, cancelled, jobs, jcap, jclosed, results, rcap,
          cons, ppc, pidx, perr, rpc, job, cerr>>

(* ------------------------------ helpers ------------------------------- *)
NoEntry == [value |-> 0, expiration |-> 0]
NoRes == [found |-> FALSE, value |-> 0, keys |-> <<>>, fault |-> FALSE]
NoFresh == [set |-> FALSE, value |-> 0, at |-> 0]
EmptyMap == [x \in {} |-> NoEntry]

Range(s) == {s[i] : i \in 1..Len(s)}

Entry(v, exp) == [value |-> v, expiration |-> exp]

\* mutation: the ttl is not added
ExpirationNow(t, d) == t

\* time.Now().Add(c.ttl)
Expiration(t, d) == t + d

\* mutation: the comparison is inverted
ExpiredInverted(e, t) == t - e.expiration < 0

\* mutation: expired from the instant of expiration on
ExpiredAt(e, t) == t - e.expiration >= 0

\* time.Since(entry.expiration) > 0
Expired(e, t) == t - e.expiration > 0

\* mutation: an existing entry is not overwritten
MapPutIfAbsent(mm, k, e) ==
  [x \in (DOMAIN mm) \cup {k} |-> IF x \in DOMAIN mm THEN mm[x] ELSE e]

\* c.m[k] = e
MapPut(mm, k, e) == [x \in (DOMAIN mm) \cup {k} |-> IF x = k THEN e ELSE mm[x]]

\* delete(c.m, k)
MapDelete(mm, k) == [x \in (DOMAIN mm) \ {k} |-> mm[x]]

\* mutation: the ledger is left alone
removeKeyNone(ks, k) == ks

\* removeKey: c.keys = append(c.keys[:i], c.keys[i+1:]...) at the first i with k
RECURSIVE removeKey(_, _)
removeKey(ks, k) ==
  IF ks = <<>> THEN <<>>
  ELSE IF Head(ks) = k THEN Tail(ks)
  ELSE <<Head(ks)>> \o removeKey(Tail(ks), k)

\* the loop of Keys(): the ledger's keys that are in the map
RECURSIVE liveKeys(_, _)
liveKeys(ks, mm) ==
  IF ks = <<>> THEN <<>>
  ELSE IF Head(ks) \in DOMAIN mm THEN <<Head(ks)>> \o liveKeys(Tail(ks), mm)
  ELSE liveKeys(Tail(ks), mm)

\* mutation: evicts whenever the store holds anything
FullNonEmpty(mm, sz) == Cardinality(DOMAIN mm) >= 1

\* mutation: the capacity test is off by one
FullEarly(mm, sz) == Cardinality(DOMAIN mm) >= sz - 1

\* mutation: the capacity test is strict
FullStrict(mm, sz) == Cardinality(DOMAIN mm) > sz

\* len(c.m) >= c.size
Full(mm, sz) == Cardinality(DOMAIN mm) >= sz

\* mutation: the newest key is evicted
OldestIsLast(ks) == ks[Len(ks)]

\* oldest := c.keys[0]
Oldest(ks) == ks[1]

\* mutation: the head is not dropped
RestAll(ks) == ks

\* c.keys[1:]
Rest(ks) == SubSeq(ks, 2, Len(ks))

\* mutation: the key is put at the head of the ledger
AppendKeyFront(ks, k) == <<k>> \o ks

\* mutation: the ledger of a value receiver, the append is lost
AppendKeyLost(ks, k) == ks

\* c.keys = append(c.keys, key)
AppendKey(ks, k) == Append(ks, k)

\* mutation: c.keys is not cleared
ClearedKeysKept(ks) == ks

\* c.keys = nil
ClearedKeys(ks) == <<>>

\* mutation: a nil map is written as if it had been made
WritableAlways(nl) == TRUE

\* an assignment c.m[key] = ... panics on a nil map
Writable(nl) == ~nl

\* mutation: zero is accepted
InvalidNegative(x) == x < 0

\* size <= 0, ttl <= 0
Invalid(x) == x <= 0

\* s without k
Without(s, k) == SelectSeq(s, LAMBDA x : x # k)

State(mm, nl, ks) == [m |-> mm, mnil |-> nl, keys |-> ks]
Cur == State(m, mnil, keys)

(* ------------------ the handlers as whole functions ------------------- *)
\* Each returns the cache state and the return value the handler produces
\* when it runs alone on state st and reads the clock as t.
Out(st, r) == [st |-> st, res |-> r]

SeqGet(st, k, t) ==
  IF k \notin DOMAIN st.m THEN Out(st, NoRes)
  ELSE IF t > st.m[k].expiration
       THEN LET i == CHOOSE i \in 0..Len(st.keys) :
                       /\ i > 0 => st.keys[i] = k
                       /\ i = 0 => k \notin Range(st.keys)
                       /\ \A j \in 1..(i - 1) : st.keys[j] # k
                ks == IF i = 0 THEN st.keys
                      ELSE SubSeq(st.keys, 1, i - 1) \o SubSeq(st.keys, i + 1, Len(st.keys))
            IN  Out([m |-> [x \in (DOMAIN st.m) \ {k} |-> st.m[x]],
                     mnil |-> st.mnil, keys |-> ks], NoRes)
       ELSE Out(st, [NoRes EXCEPT !.found = TRUE, !.value = st.m[k].value])

SeqSet(st, k, v, t, sz, d) ==
  LET e == [value |-> v, expiration |-> t + d]
      put(mm) == [x \in (DOMAIN mm) \cup {k} |-> IF x = k THEN e ELSE mm[x]]
      full == Cardinality(DOMAIN st.m) >= sz
  IN  IF k \in DOMAIN st.m
      THEN Out([st EXCEPT !.m = put(st.m)], NoRes)
      ELSE IF full /\ st.keys = <<>>
           THEN Out(st, [NoRes EXCEPT !.fault = TRUE])     \* c.keys[0] out of range
           ELSE LET m1 == IF full THEN [x \in (DOMAIN st.m) \ {st.keys[1]} |-> st.m[x]]
                          ELSE st.m
                    k1 == IF full THEN Tail(st.keys) ELSE st.keys
                IN  IF st.mnil                             \* write to a nil map
                    THEN Out([st EXCEPT !.m = m1, !.keys = k1],
                             [NoRes EXCEPT !.fault = TRUE])
                    ELSE Out([st EXCEPT !.m = put(m1), !.keys = Append(k1, k)], NoRes)

SeqKeys(st) ==
  Out(st, [NoRes EXCEPT !.keys = SelectSeq(st.keys, LAMBDA x : x \in DOMAIN st.m)])

SeqClose(st) == Out([m |-> EmptyMap, mnil |-> TRUE, keys |-> <<>>], NoRes)

SeqOp(o, st, k, v, t, sz, d) ==
  CASE o = "Get" -> SeqGet(st, k, t)
    [] o = "Set" -> SeqSet(st, k, v, t, sz, d)
    [] o = "Keys" -> SeqKeys(st)
    [] o = "Close" -> SeqClose(st)

(* ------------------------------- Init --------------------------------- *)
ProcInit ==
  /\ pc = [p \in Procs |-> "idle"]
  /\ op = [p \in Procs |-> "none"]
  /\ key = [p \in Procs |-> 0]
  /\ val = [p \in Procs |-> 0]
  /\ ent = [p \in Procs |-> NoEntry]
  /\ tnow = [p \in Procs |-> 0]
  /\ res = [p \in Procs |-> NoRes]

HistInit ==
  /\ pre = State(EmptyMap, FALSE, <<>>)
  /\ ret = State(EmptyMap, FALSE, <<>>)
  /\ fresh = [k \in Key |-> NoFresh]
  /\ ins = <<>>
  /\ nins = 0
  /\ ord = <<>>
  /\ gone = NoKey

(* ------------------- NextMovie: values and idle state ------------------ *)
MaxTimeout == 4

\* the time left of a ctx that has no deadline
NoDeadline == -1
NumUsers == 2
Users == 1..NumUsers

\* bmvTime = 50ms, in units of 25ms, so that main's timeout bmvTime/2 is 1
bmvTime == 2

\* mutation: ch := make(chan Movie), unbuffered
ChanCapZero == 1 - 1

\* ch := make(chan Movie, 1)
ChanCap == 1

defaultMovie == [ID |-> "tt0093779", Title |-> "The Princess Bride"]
bestMovie == [ID |-> "tt0083658", Title |-> "Blade Runner"]
NoMovie == [ID |-> "", Title |-> ""]

\* NextMovie is not running
MovieIdle ==
  /\ user = 0 /\ left = 0 /\ sleep = 0 /\ ch = <<>>
  /\ wpc = "none" /\ npc = "none" /\ out = NoMovie /\ atexp = FALSE

(* ------------------ ValidateSigs: values and idle state ---------------- *)
MaxFiles == 2
Workers == 1..MaxFiles
Nil == "nil"
ErrCopy == "copy"
Names == {"file1.txt", "file2.txt"}
Contents == {"Hello, World!", "Go is awesome!"}

\* the SHA1 digest in "%x" format
Sha1Hex(data) ==
  CASE data = "Hello, World!" -> "0a0a9f2a6772942557ab5355d76af442f8f65e01"
    [] data = "Go is awesome!" -> "6ce832d90b8f5da7e470fc4655d017d896b7b8b9"

\* expected signatures: the true digests, the one main gives file1.txt, none
Signatures ==
  {Sha1Hex(c) : c \in Contents} \cup
  {"65a8e27d8879283831b664bd8b7f0ad4e5d5a1bd", ""}

File == [Name : Names, Content : Contents, Signature : Signatures]
NoReply == [filename |-> "", match |-> FALSE, err |-> Nil]

\* ValidateSigs is not running
SigsIdle ==
  /\ files = <<>> /\ idx = 0 /\ wk = [w \in Workers |-> "none"]
  /\ reply = [w \in Workers |-> NoReply]
  /\ okFiles = <<>> /\ badFiles = <<>> /\ okIdx = <<>> /\ badIdx = <<>>
  /\ recvd = 0 /\ vpc = "none" /\ rerr = Nil

(* ---------------- worker/producer: values and idle state --------------- *)
MaxMatches == 2
MaxCap == 1
NumWorkers == 2
RWorkers == 1..NumWorkers
ErrGlob == "bad pattern"
ErrCanceled == "context canceled"
ErrCenter == "center"

\* neither producer nor a worker is running
ResizeIdle ==
  /\ nmatch = 0 /\ globErr = FALSE /\ cancelled = FALSE
  /\ jobs = <<>> /\ jcap = 0 /\ jclosed = FALSE
  /\ results = <<>> /\ rcap = 0 /\ cons = "none"
  /\ ppc = "none" /\ pidx = 0 /\ perr = Nil
  /\ rpc = [w \in RWorkers |-> "none"]
  /\ job = [w \in RWorkers |-> 0]
  /\ cerr = [w \in RWorkers |-> Nil]

(* ------------------------- the cache: start --------------------------- *)
\* the cache before main calls New
CacheInit ==
  /\ made = FALSE /\ err = "" /\ nargs = <<0, 0>> /\ size = 0 /\ ttl = 0
  /\ m = EmptyMap /\ mnil = FALSE /\ keys = <<>> /\ mu = Free /\ now = 0
  /\ ProcInit /\ HistInit
  /\ gkey = [p \in Procs |-> 0] /\ cnt = [p \in Procs |-> 0]
  /\ wg = 0 /\ mainpc = "new"

\* the cache program: NextMovie and ValidateSigs are other programs
Init == CacheInit /\ MovieIdle /\ SigsIdle /\ ResizeIdle

(* ----------------------------- the clock ------------------------------ *)
Tick ==
  /\ made /\ now < MaxTime
  /\ now' = now + 1
  /\ UNCHANGED <<made, err, nargs, size, ttl, m, mnil, keys, mu>>
  /\ UNCHANGED <<procVars, histVars, mainVars, otherVars>>

(* -------------------------------- New --------------------------------- *)
New(sz, d) ==
  /\ mainpc = "new" /\ ~made /\ err = ""
  /\ nargs' = <<sz, d>>
  /\ IF Invalid(sz)
     THEN /\ err' = "size must be positive"
          /\ UNCHANGED <<made, size, ttl, mainpc>>
     ELSE IF Invalid(d)
          THEN /\ err' = "ttl must be positive"
               /\ UNCHANGED <<made, size, ttl, mainpc>>
          ELSE /\ made' = TRUE /\ size' = sz /\ ttl' = d /\ mainpc' = "built"
               /\ UNCHANGED err
  /\ m' = EmptyMap /\ mnil' = FALSE /\ keys' = <<>>
  /\ UNCHANGED <<mu, now, procVars, histVars, gkey, cnt, wg, otherVars>>

(* --------------------------- c.mu.Lock() ------------------------------ *)
\* mutation: Lock does not wait
UnlockedAlways(x) == TRUE

\* Lock blocks until c.mu is free
Unlocked(x) == x = Free

FirstPc(o) ==
  CASE o = "Get" -> "GetLookup"
    [] o = "Set" -> "SetLookup"
    [] o = "Keys" -> "KeysScan"
    [] o = "Close" -> "CloseMap"

\* goroutine p enters handler o(k, v): Lock returns once the mutex is free
Acquire(p, o, k, v) ==
  /\ made /\ pc[p] = "idle"
  /\ Unlocked(mu)
  /\ mu' = p
  /\ pc' = [pc EXCEPT ![p] = FirstPc(o)]
  /\ op' = [op EXCEPT ![p] = o]
  /\ key' = [key EXCEPT ![p] = k]
  /\ val' = [val EXCEPT ![p] = v]
  /\ pre' = Cur
  /\ UNCHANGED <<made, err, nargs, size, ttl, m, mnil, keys, now>>
  /\ UNCHANGED <<ent, tnow, res, ret, fresh, ins, nins, ord, gone, otherVars>>

\* any caller, any call
Call(p, o, k, v) ==
  /\ mainpc \in {"built", "calls"}
  /\ Acquire(p, o, k, v)
  /\ mainpc' = "calls"
  /\ UNCHANGED <<gkey, cnt, wg>>

\* mutation: a return path without Unlock
AfterUnlockHeld(p) == p

\* c.mu after goroutine p ran its deferred Unlock
AfterUnlock(p) == Free

\* defer c.mu.Unlock(), then the handler returns
Unlock(p) ==
  /\ pc[p] = "unlock"
  /\ mu' = AfterUnlock(p)
  /\ pc' = [pc EXCEPT ![p] = "idle"]
  /\ op' = [op EXCEPT ![p] = "none"]
  /\ key' = [key EXCEPT ![p] = 0]
  /\ val' = [val EXCEPT ![p] = 0]
  /\ ent' = [ent EXCEPT ![p] = NoEntry]
  /\ tnow' = [tnow EXCEPT ![p] = 0]
  /\ res' = [res EXCEPT ![p] = NoRes]
  /\ pre' = Cur
  /\ ret' = SeqOp(op[p], ret, key[p], val[p], tnow[p], size, ttl).st
  /\ fresh' = IF op[p] = "Get" /\ ~res[p].found
              THEN [fresh EXCEPT ![key[p]] = NoFresh]   \* absent or purged
              ELSE fresh
  /\ UNCHANGED <<made, err, nargs, size, ttl, m, mnil, keys, now>>
  /\ UNCHANGED <<ins, nins, ord, gone, mainVars, otherVars>>

\* a step of the handler body that only moves p and sets locals
Goto(p, l) == pc' = [pc EXCEPT ![p] = l]
Frame ==
  UNCHANGED <<made, err, nargs, size, ttl, mu, now, op, key, val, pre, ret,
              mainVars, otherVars>>
Fault == [NoRes EXCEPT !.fault = TRUE]

\* the last n elements of s
LastN(s, n) == IF Len(s) <= n THEN s ELSE SubSeq(s, Len(s) - n + 1, Len(s))

(* -------------------------------- Get --------------------------------- *)
\* entry, found := c.m[key]; if !found { return nil, false }
GetLookup(p) ==
  /\ pc[p] = "GetLookup"
  /\ IF key[p] \in DOMAIN m
     THEN /\ ent' = [ent EXCEPT ![p] = m[key[p]]]
          /\ Goto(p, "GetCheck")
          /\ UNCHANGED res
     ELSE /\ res' = [res EXCEPT ![p] = NoRes]
          /\ Goto(p, "unlock")
          /\ UNCHANGED ent
  /\ Frame /\ UNCHANGED <<m, mnil, keys, tnow, fresh, ins, nins, ord, gone>>

\* if time.Since(entry.expiration) > 0 {...}; return entry.value, true
GetCheck(p) ==
  /\ pc[p] = "GetCheck"
  /\ tnow' = [tnow EXCEPT ![p] = now]
  /\ IF Expired(ent[p], now)
     THEN /\ Goto(p, "GetDelete")
          /\ UNCHANGED res
     ELSE /\ res' = [res EXCEPT ![p] = [NoRes EXCEPT !.found = TRUE,
                                                   !.value = ent[p].value]]
          /\ Goto(p, "unlock")
  /\ Frame /\ UNCHANGED <<m, mnil, keys, ent, fresh, ins, nins, ord, gone>>

\* delete(c.m, key)
GetDelete(p) ==
  /\ pc[p] = "GetDelete"
  /\ m' = MapDelete(m, key[p])
  /\ ins' = <<>> /\ nins' = 0
  /\ ord' = Without(ord, key[p]) /\ gone' = key[p]
  /\ Goto(p, "GetRemoveKey")
  /\ Frame /\ UNCHANGED <<mnil, keys, ent, tnow, res, fresh>>

\* c.removeKey(key); return nil, false
GetRemoveKey(p) ==
  /\ pc[p] = "GetRemoveKey"
  /\ keys' = removeKey(keys, key[p])
  /\ res' = [res EXCEPT ![p] = NoRes]
  /\ Goto(p, "unlock")
  /\ Frame /\ UNCHANGED <<m, mnil, ent, tnow, fresh, ins, nins, ord, gone>>

(* -------------------------------- Set --------------------------------- *)
\* if _, found := c.m[key]; found {...}
SetLookup(p) ==
  /\ pc[p] = "SetLookup"
  /\ IF key[p] \in DOMAIN m THEN Goto(p, "SetRefresh") ELSE Goto(p, "SetFull")
  /\ Frame /\ UNCHANGED <<m, mnil, keys, ent, tnow, res, fresh, ins, nins, ord, gone>>

\* c.m[key] = Entry{value, time.Now().Add(c.ttl)}; return
SetRefresh(p) ==
  /\ pc[p] = "SetRefresh"
  /\ IF ~Writable(mnil)
     THEN /\ res' = [res EXCEPT ![p] = Fault]     \* assignment to entry in nil map
          /\ UNCHANGED <<m, tnow, fresh>>
     ELSE /\ tnow' = [tnow EXCEPT ![p] = now]
          /\ m' = MapPut(m, key[p], Entry(val[p], Expiration(now, ttl)))
          /\ fresh' = [fresh EXCEPT ![key[p]] =
                         [set |-> TRUE, value |-> val[p], at |-> now]]
          /\ UNCHANGED res
  /\ Goto(p, "unlock")
  /\ Frame /\ UNCHANGED <<mnil, keys, ent, ins, nins, ord, gone>>

\* if len(c.m) >= c.size {...}
SetFull(p) ==
  /\ pc[p] = "SetFull"
  /\ IF Full(m, size) THEN Goto(p, "SetEvict") ELSE Goto(p, "SetInsert")
  /\ Frame /\ UNCHANGED <<m, mnil, keys, ent, tnow, res, fresh, ins, nins, ord, gone>>

\* oldest := c.keys[0]; delete(c.m, oldest)
SetEvict(p) ==
  /\ pc[p] = "SetEvict"
  /\ IF keys = <<>>
     THEN /\ res' = [res EXCEPT ![p] = Fault]     \* index out of range
          /\ Goto(p, "unlock")
          /\ UNCHANGED <<m, fresh, ord, gone>>
     ELSE /\ m' = MapDelete(m, Oldest(keys))
          /\ fresh' = [fresh EXCEPT ![Oldest(keys)] = NoFresh]
          /\ ord' = Without(ord, Oldest(keys)) /\ gone' = Oldest(keys)
          /\ Goto(p, "SetSlice")
          /\ UNCHANGED res
  /\ Frame /\ UNCHANGED <<mnil, keys, ent, tnow, ins, nins>>

\* c.keys = c.keys[1:]
SetSlice(p) ==
  /\ pc[p] = "SetSlice"
  /\ IF keys = <<>>
     THEN /\ res' = [res EXCEPT ![p] = Fault]     \* slice bounds out of range
          /\ Goto(p, "unlock")
          /\ UNCHANGED keys
     ELSE /\ keys' = Rest(keys)
          /\ Goto(p, "SetInsert")
          /\ UNCHANGED res
  /\ Frame /\ UNCHANGED <<m, mnil, ent, tnow, fresh, ins, nins, ord, gone>>

\* c.m[key] = Entry{value, time.Now().Add(c.ttl)}
SetInsert(p) ==
  /\ pc[p] = "SetInsert"
  /\ IF ~Writable(mnil)
     THEN /\ res' = [res EXCEPT ![p] = Fault]     \* assignment to entry in nil map
          /\ Goto(p, "unlock")
          /\ UNCHANGED <<m, tnow, fresh, ord>>
     ELSE /\ tnow' = [tnow EXCEPT ![p] = now]
          /\ m' = MapPut(m, key[p], Entry(val[p], Expiration(now, ttl)))
          /\ fresh' = [fresh EXCEPT ![key[p]] =
                         [set |-> TRUE, value |-> val[p], at |-> now]]
          /\ ord' = Append(Without(ord, key[p]), key[p])
          /\ Goto(p, "SetAppend")
          /\ UNCHANGED res
  /\ Frame /\ UNCHANGED <<mnil, keys, ent, ins, nins, gone>>

\* c.keys = append(c.keys, key)
SetAppend(p) ==
  /\ pc[p] = "SetAppend"
  /\ keys' = AppendKey(keys, key[p])
  /\ ins' = LastN(Append(ins, key[p]), size)
  /\ nins' = IF nins <= size THEN nins + 1 ELSE nins
  /\ Goto(p, "unlock")
  /\ Frame /\ UNCHANGED <<m, mnil, ent, tnow, res, fresh, ord, gone>>

(* -------------------------------- Keys -------------------------------- *)
\* for _, k := range c.keys { if _, found := c.m[k]; found {...} }; return keys
KeysScan(p) ==
  /\ pc[p] = "KeysScan"
  /\ res' = [res EXCEPT ![p] = [NoRes EXCEPT !.keys = liveKeys(keys, m)]]
  /\ Goto(p, "unlock")
  /\ Frame /\ UNCHANGED <<m, mnil, keys, ent, tnow, fresh, ins, nins, ord, gone>>

(* ------------------------------- Close -------------------------------- *)
\* c.m = nil
CloseMap(p) ==
  /\ pc[p] = "CloseMap"
  /\ m' = EmptyMap /\ mnil' = TRUE
  /\ fresh' = [k \in Key |-> NoFresh]
  /\ ins' = <<>> /\ nins' = 0
  /\ ord' = <<>> /\ gone' = NoKey
  /\ Goto(p, "CloseKeys")
  /\ Frame /\ UNCHANGED <<keys, ent, tnow, res>>

\* c.keys = nil
CloseKeys(p) ==
  /\ pc[p] = "CloseKeys"
  /\ keys' = ClearedKeys(keys)
  /\ Goto(p, "unlock")
  /\ Frame /\ UNCHANGED <<m, mnil, ent, tnow, res, fresh, ins, nins, ord, gone>>

(* -------------------- concurrency check of main ----------------------- *)
\* state at "checking concurrency": an open cache, numGr goroutines spawned
InitConc ==
  /\ made = TRUE /\ err = ""
  /\ size \in 1..MaxSize /\ ttl \in 1..MaxTtl /\ nargs = <<size, ttl>>
  /\ m = EmptyMap /\ mnil = FALSE /\ keys = <<>> /\ mu = Free /\ now = 0
  /\ ProcInit /\ HistInit
  /\ gkey \in [Procs -> Key] /\ cnt = [p \in Procs |-> 0]
  /\ wg = NumGr /\ mainpc = "wait"
  /\ MovieIdle /\ SigsIdle /\ ResizeIdle

\* for i := 0; i < count; i++ { time.Sleep(..); c.Set(key, i) }
GoSet(p) ==
  /\ mainpc = "wait" /\ cnt[p] < MaxCount
  /\ Acquire(p, "Set", gkey[p], cnt[p])
  /\ cnt' = [cnt EXCEPT ![p] = cnt[p] + 1]
  /\ UNCHANGED <<gkey, wg, mainpc>>

\* defer wg.Done()
GoDone(p) ==
  /\ mainpc = "wait" /\ pc[p] = "idle" /\ cnt[p] = MaxCount
  /\ pc' = [pc EXCEPT ![p] = "done"]
  /\ wg' = wg - 1
  /\ UNCHANGED <<cacheVars, op, key, val, ent, tnow, res, histVars, gkey, cnt,
                 mainpc, otherVars>>

\* wg.Wait()
WgWait ==
  /\ mainpc = "wait" /\ wg = 0
  /\ mainpc' = "ok"
  /\ UNCHANGED <<cacheVars, procVars, histVars, gkey, cnt, wg, otherVars>>

(* --------------------------- specifications --------------------------- *)
GetBody(p) == GetLookup(p) \/ GetCheck(p) \/ GetDelete(p) \/ GetRemoveKey(p)

SetBody(p) ==
  \/ SetLookup(p) \/ SetRefresh(p) \/ SetFull(p) \/ SetEvict(p)
  \/ SetSlice(p) \/ SetInsert(p) \/ SetAppend(p)

Body(p) ==
  \/ GetBody(p) \/ SetBody(p)
  \/ KeysScan(p) \/ CloseMap(p) \/ CloseKeys(p)

Next ==
  \/ \E sz \in (-1)..MaxSize, d \in (-1)..MaxTtl : New(sz, d)
  \/ \E p \in Procs, o \in Ops, k \in Key, v \in 1..MaxVal : Call(p, o, k, v)
  \/ \E p \in Procs : Body(p)
  \/ \E p \in Procs : Unlock(p)
  \/ Tick

Spec == Init /\ [][Next]_vars

GoStep(p) == GoSet(p) \/ SetBody(p) \/ Unlock(p) \/ GoDone(p)

NextConc ==
  \/ \E p \in Procs : GoSet(p)
  \/ \E p \in Procs : SetBody(p)
  \/ \E p \in Procs : Unlock(p)
  \/ \E p \in Procs : GoDone(p)
  \/ WgWait
  \/ Tick

\* the goroutines of the concurrency check, each scheduled fairly
SpecConc ==
  /\ InitConc /\ [][NextConc]_vars
  /\ \A p \in Procs : WF_vars(GoStep(p))
  /\ WF_vars(WgWait)

(* ============================== NextMovie ============================= *)
\* NextMovie(ctx, user) is called: ctx has MaxTimeout or less left, is done
\* already, or has no deadline
InitMovie ==
  /\ CacheInit /\ SigsIdle /\ ResizeIdle
  /\ user \in Users /\ left \in 0..MaxTimeout \cup {NoDeadline}
  /\ sleep = 0 /\ ch = <<>>
  /\ wpc = "none" /\ npc = "call" /\ out = NoMovie /\ atexp = FALSE

MovieFrame ==
  UNCHANGED <<cacheVars, procVars, histVars, mainVars, sigVars, resizeVars, user>>

\* ctx.Done() is closed
CtxDone == left = 0

\* a send on ch cannot proceed: the buffer is full and no receiver waits
SendBlocked == wpc = "send" /\ Len(ch) >= ChanCap /\ npc # "parked"

\* case m := <-ch can proceed: a buffered value or a blocked sender
RecvReady == ch # <<>> \/ SendBlocked

\* time passes: the sleep and the timeout of ctx run down; when the timeout
\* ends ctx.Done() is closed, and a caller parked in select takes that case
Elapse ==
  /\ left > 0 \/ sleep > 0
  /\ left' = IF left > 0 THEN left - 1 ELSE 0
  /\ sleep' = IF sleep > 0 THEN sleep - 1 ELSE 0
  /\ atexp' = IF left = 1 THEN ch # <<>> ELSE atexp
  /\ IF left = 1 /\ npc = "parked"
     THEN npc' = "ret" /\ out' = defaultMovie
     ELSE UNCHANGED <<npc, out>>
  /\ UNCHANGED <<ch, wpc>>
  /\ MovieFrame

\* ch := make(chan Movie, 1)
MakeChan ==
  /\ npc = "call"
  /\ ch' = <<>> /\ npc' = "go"
  /\ UNCHANGED <<left, sleep, wpc, out, atexp>>
  /\ MovieFrame

\* go func() { ch <- BestNextMovie(user) }()
GoWorker ==
  /\ npc = "go"
  /\ wpc' = "start" /\ npc' = "select"
  /\ UNCHANGED <<left, sleep, ch, out, atexp>>
  /\ MovieFrame

\* BestNextMovie: time.Sleep(bmvTime) begins
BestNextMovieSleep ==
  /\ wpc = "start"
  /\ sleep' = bmvTime /\ wpc' = "sleep"
  /\ UNCHANGED <<left, ch, npc, out, atexp>>
  /\ MovieFrame

\* BestNextMovie: the sleep is over, it returns Blade Runner
BestNextMovieReturn ==
  /\ wpc = "sleep" /\ sleep = 0
  /\ wpc' = "send"
  /\ UNCHANGED <<left, sleep, ch, npc, out, atexp>>
  /\ MovieFrame

\* ch <- m: handed to a caller parked in select, else put in the buffer
Send ==
  /\ wpc = "send"
  /\ IF npc = "parked"
     THEN /\ npc' = "ret" /\ out' = bestMovie
          /\ UNCHANGED ch
     ELSE /\ Len(ch) < ChanCap
          /\ ch' = Append(ch, bestMovie)
          /\ UNCHANGED <<npc, out>>
  /\ wpc' = "done"
  /\ UNCHANGED <<left, sleep, atexp>>
  /\ MovieFrame

\* select picks case m := <-ch (any ready case may be picked)
SelectRecv ==
  /\ npc = "select" /\ RecvReady
  /\ IF ch # <<>>
     THEN out' = Head(ch) /\ ch' = Tail(ch) /\ UNCHANGED wpc
     ELSE out' = bestMovie /\ wpc' = "done" /\ UNCHANGED ch
  /\ npc' = "ret"
  /\ UNCHANGED <<left, sleep, atexp>>
  /\ MovieFrame

\* select picks case <-ctx.Done() (any ready case may be picked)
SelectDone ==
  /\ npc = "select" /\ CtxDone
  /\ out' = defaultMovie /\ npc' = "ret"
  /\ UNCHANGED <<left, sleep, ch, wpc, atexp>>
  /\ MovieFrame

\* select finds no case ready and parks the caller
SelectPark ==
  /\ npc = "select" /\ ~RecvReady /\ ~CtxDone
  /\ npc' = "parked"
  /\ UNCHANGED <<left, sleep, ch, wpc, out, atexp>>
  /\ MovieFrame

CallerStep == MakeChan \/ GoWorker \/ SelectRecv \/ SelectDone \/ SelectPark
WorkerStep == BestNextMovieSleep \/ BestNextMovieReturn \/ Send

NextMv ==
  \/ Elapse
  \/ MakeChan
  \/ GoWorker
  \/ BestNextMovieSleep
  \/ BestNextMovieReturn
  \/ Send
  \/ SelectRecv
  \/ SelectDone
  \/ SelectPark

\* both goroutines are scheduled fairly and time passes
SpecMovie ==
  /\ InitMovie /\ [][NextMv]_vars
  /\ WF_vars(CallerStep) /\ WF_vars(WorkerStep) /\ WF_vars(Elapse)

(* ============================ ValidateSigs ============================ *)
\* ValidateSigs(files) is called with MaxFiles files or fewer
InitSigs ==
  /\ CacheInit /\ MovieIdle /\ ResizeIdle
  /\ files \in UNION {[1..n -> File] : n \in 0..MaxFiles}
  /\ idx = 0 /\ wk = [w \in Workers |-> "none"]
  /\ reply = [w \in Workers |-> NoReply]
  /\ okFiles = <<>> /\ badFiles = <<>> /\ okIdx = <<>> /\ badIdx = <<>>
  /\ recvd = 0 /\ vpc = "spawn" /\ rerr = Nil

SigsFrame ==
  UNCHANGED <<cacheVars, procVars, histVars, mainVars, movieVars, resizeVars,
              files>>

\* sha1Sig: the digest and no error, or "" and the error of io.Copy
sha1Sig(data, e) ==
  IF e # Nil THEN [sig |-> "", err |-> e]
             ELSE [sig |-> Sha1Hex(data), err |-> Nil]

\* mutation: the error of the reply is not looked at
BadMatchOnly(r) == ~r.match

\* if !r.match || r.err != nil
Bad(r) == ~r.match \/ r.err # Nil

\* mutation: the second loop stops after the first reply
RepliesFirst(fs) == IF Len(fs) > 0 THEN 1 ELSE 0

\* for range files: the number of replies the second loop receives
Replies(fs) == Len(fs)

\* for _, file := range files { go signWorker(file, ch) }
Spawn ==
  /\ vpc = "spawn" /\ idx < Len(files)
  /\ idx' = idx + 1
  /\ wk' = [wk EXCEPT ![idx + 1] = "run"]
  /\ UNCHANGED <<reply, okFiles, badFiles, okIdx, badIdx, recvd, vpc, rerr>>
  /\ SigsFrame

\* the first loop ends
SpawnEnd ==
  /\ vpc = "spawn" /\ idx = Len(files)
  /\ vpc' = "recv"
  /\ UNCHANGED <<idx, wk, reply, okFiles, badFiles, okIdx, badIdx, recvd, rerr>>
  /\ SigsFrame

\* signWorker computes the signature and builds its Reply
Sign(w, e) ==
  /\ wk[w] = "run"
  /\ LET s == sha1Sig(files[w].Content, e)
     IN  reply' = [reply EXCEPT ![w] =
                     [filename |-> files[w].Name,
                      match |-> s.sig = files[w].Signature,
                      err |-> s.err]]
  /\ wk' = [wk EXCEPT ![w] = "send"]
  /\ UNCHANGED <<idx, okFiles, badFiles, okIdx, badIdx, recvd, vpc, rerr>>
  /\ SigsFrame

\* r := <-ch meets the send ch <- r of signWorker w; r is filed
Recv(w) ==
  /\ vpc = "recv" /\ recvd < Replies(files)
  /\ wk[w] = "send"
  /\ wk' = [wk EXCEPT ![w] = "done"]
  /\ recvd' = recvd + 1
  /\ IF Bad(reply[w])
     THEN /\ badFiles' = Append(badFiles, reply[w].filename)
          /\ badIdx' = Append(badIdx, w)
          /\ UNCHANGED <<okFiles, okIdx>>
     ELSE /\ okFiles' = Append(okFiles, reply[w].filename)
          /\ okIdx' = Append(okIdx, w)
          /\ UNCHANGED <<badFiles, badIdx>>
  /\ UNCHANGED <<idx, reply, vpc, rerr>>
  /\ SigsFrame

\* return okFiles, badFiles, nil
Return ==
  /\ vpc = "recv" /\ recvd = Replies(files)
  /\ vpc' = "ret" /\ rerr' = Nil
  /\ UNCHANGED <<idx, wk, reply, okFiles, badFiles, okIdx, badIdx, recvd>>
  /\ SigsFrame

NextSigs ==
  \/ Spawn
  \/ SpawnEnd
  \/ \E w \in Workers, e \in {Nil, ErrCopy} : Sign(w, e)
  \/ \E w \in Workers : Recv(w)
  \/ Return

SpecSigs == InitSigs /\ [][NextSigs]_vars

\* the program does not halt while ValidateSigs or a signWorker can take a
\* step; a receive and a send that wait for each other meet
SpecSigsFair == InitSigs /\ [][NextSigs]_vars /\ WF_vars(NextSigs)

(* ========================== worker / producer ========================= *)
\* producer and NumWorkers workers are started on the channels jobs and
\* results; a receiver takes the results
InitResize ==
  /\ CacheInit /\ MovieIdle /\ SigsIdle
  /\ globErr \in BOOLEAN
  /\ nmatch \in IF globErr THEN {0} ELSE 0..MaxMatches
  /\ cancelled = FALSE
  /\ jobs = <<>> /\ jcap \in 0..MaxCap /\ jclosed = FALSE
  /\ results = <<>> /\ rcap \in 0..MaxCap /\ cons = "recv"
  /\ ppc = "glob" /\ pidx = 0 /\ perr = Nil
  /\ rpc = [w \in RWorkers |-> "select"]
  /\ job = [w \in RWorkers |-> 0]
  /\ cerr = [w \in RWorkers |-> Nil]

ResizeFrame ==
  UNCHANGED <<cacheVars, procVars, histVars, mainVars, movieVars, sigVars,
              nmatch, globErr, jcap, rcap>>

\* ctx is cancelled or its deadline passes: ctx.Done() is closed
Cancel ==
  /\ ~cancelled
  /\ cancelled' = TRUE
  /\ UNCHANGED <<jobs, jclosed, results, cons, ppc, pidx, perr, rpc, job, cerr>>
  /\ ResizeFrame

\* matches, err := filepath.Glob(...); if err != nil { return err }
Glob ==
  /\ ppc = "glob"
  /\ IF globErr
     THEN ppc' = "ret" /\ perr' = ErrGlob /\ jclosed' = TRUE
     ELSE ppc' = "loop" /\ UNCHANGED <<perr, jclosed>>
  /\ UNCHANGED <<cancelled, jobs, results, cons, pidx, rpc, job, cerr>>
  /\ ResizeFrame

\* select picks case jobs <- [2]string{src, dest}: room in the buffer
ProducerSend ==
  /\ ppc = "loop" /\ pidx < nmatch /\ ~jclosed
  /\ Len(jobs) < jcap
  /\ jobs' = Append(jobs, pidx + 1)
  /\ pidx' = pidx + 1
  /\ UNCHANGED <<cancelled, jclosed, results, cons, ppc, perr, rpc, job, cerr>>
  /\ ResizeFrame

\* select picks case jobs <- ... with no room in the buffer: worker w waits
\* in its receive and takes the job
ProducerHandoff(w) ==
  /\ ppc = "loop" /\ pidx < nmatch /\ ~jclosed
  /\ jobs = <<>> /\ Len(jobs) >= jcap /\ rpc[w] = "select"
  /\ job' = [job EXCEPT ![w] = pidx + 1]
  /\ rpc' = [rpc EXCEPT ![w] = "center"]
  /\ pidx' = pidx + 1
  /\ UNCHANGED <<cancelled, jobs, jclosed, results, cons, ppc, perr, cerr>>
  /\ ResizeFrame

\* select picks case <-ctx.Done(): return ctx.Err(), the deferred close runs
ProducerCancel ==
  /\ ppc = "loop" /\ pidx < nmatch /\ cancelled
  /\ ppc' = "ret" /\ perr' = ErrCanceled /\ jclosed' = TRUE
  /\ UNCHANGED <<cancelled, jobs, results, cons, pidx, rpc, job, cerr>>
  /\ ResizeFrame

\* the loop is over: return nil, the deferred close runs
ProducerEnd ==
  /\ ppc = "loop" /\ pidx = nmatch
  /\ ppc' = "ret" /\ perr' = Nil /\ jclosed' = TRUE
  /\ UNCHANGED <<cancelled, jobs, results, cons, pidx, rpc, job, cerr>>
  /\ ResizeFrame

\* worker: select picks case <-ctx.Done(): return
WorkerDone(w) ==
  /\ rpc[w] = "select" /\ cancelled
  /\ rpc' = [rpc EXCEPT ![w] = "ret"]
  /\ UNCHANGED <<cancelled, jobs, jclosed, results, cons, ppc, pidx, perr, job, cerr>>
  /\ ResizeFrame

\* worker: select picks case job, ok := <-jobs with a buffered job
WorkerRecv(w) ==
  /\ rpc[w] = "select" /\ jobs # <<>>
  /\ job' = [job EXCEPT ![w] = Head(jobs)]
  /\ jobs' = Tail(jobs)
  /\ rpc' = [rpc EXCEPT ![w] = "center"]
  /\ UNCHANGED <<cancelled, jclosed, results, cons, ppc, pidx, perr, cerr>>
  /\ ResizeFrame

\* worker: the receive finds jobs closed and empty: !ok, return
WorkerClosed(w) ==
  /\ rpc[w] = "select" /\ jobs = <<>> /\ jclosed
  /\ rpc' = [rpc EXCEPT ![w] = "ret"]
  /\ UNCHANGED <<cancelled, jobs, jclosed, results, cons, ppc, pidx, perr, job, cerr>>
  /\ ResizeFrame

\* worker: err := Center(job[0], job[1])
WorkerCenter(w, e) ==
  /\ rpc[w] = "center"
  /\ cerr' = [cerr EXCEPT ![w] = e]
  /\ rpc' = [rpc EXCEPT ![w] = "send"]
  /\ UNCHANGED <<cancelled, jobs, jclosed, results, cons, ppc, pidx, perr, job>>
  /\ ResizeFrame

\* worker: results <- err, room in the buffer
WorkerSend(w) ==
  /\ rpc[w] = "send" /\ Len(results) < rcap
  /\ results' = Append(results, cerr[w])
  /\ rpc' = [rpc EXCEPT ![w] = "select"]
  /\ UNCHANGED <<cancelled, jobs, jclosed, cons, ppc, pidx, perr, job, cerr>>
  /\ ResizeFrame

\* the receiver of results takes a buffered result
ResultsRecv ==
  /\ cons = "recv" /\ results # <<>>
  /\ results' = Tail(results)
  /\ UNCHANGED <<cancelled, jobs, jclosed, cons, ppc, pidx, perr, rpc, job, cerr>>
  /\ ResizeFrame

\* the receiver of results meets worker w blocked in results <- err
ResultsHandoff(w) ==
  /\ cons = "recv" /\ results = <<>> /\ Len(results) >= rcap
  /\ rpc[w] = "send"
  /\ rpc' = [rpc EXCEPT ![w] = "select"]
  /\ UNCHANGED <<cancelled, jobs, jclosed, results, cons, ppc, pidx, perr, job, cerr>>
  /\ ResizeFrame

\* the receiver of results gives up once ctx is done
ResultsStop ==
  /\ cons = "recv" /\ cancelled
  /\ cons' = "stopped"
  /\ UNCHANGED <<cancelled, jobs, jclosed, results, ppc, pidx, perr, rpc, job, cerr>>
  /\ ResizeFrame

ProducerStep ==
  \/ Glob \/ ProducerSend \/ ProducerCancel \/ ProducerEnd
  \/ \E w \in RWorkers : ProducerHandoff(w)

ResizeWorker(w) ==
  \/ WorkerDone(w) \/ WorkerRecv(w) \/ WorkerClosed(w) \/ WorkerSend(w)
  \/ \E e \in {Nil, ErrCenter} : WorkerCenter(w, e)

ResultsStep == ResultsRecv \/ \E w \in RWorkers : ResultsHandoff(w)

NextResize ==
  \/ Cancel
  \/ Glob
  \/ ProducerSend
  \/ \E w \in RWorkers : ProducerHandoff(w)
  \/ ProducerCancel
  \/ ProducerEnd
  \/ \E w \in RWorkers : WorkerDone(w)
  \/ \E w \in RWorkers : WorkerRecv(w)
  \/ \E w \in RWorkers : WorkerClosed(w)
  \/ \E w \in RWorkers, e \in {Nil, ErrCenter} : WorkerCenter(w, e)
  \/ \E w \in RWorkers : WorkerSend(w)
  \/ ResultsRecv
  \/ \E w \in RWorkers : ResultsHandoff(w)
  \/ ResultsStop

\* producer, every worker and a receiver that has not given up are scheduled
\* fairly; nothing forces ctx to be cancelled or the receiver to give up
SpecResize ==
  /\ InitResize /\ [][NextResize]_vars
  /\ WF_vars(ProducerStep)
  /\ \A w \in RWorkers : WF_vars(ResizeWorker(w))
  /\ WF_vars(ResultsStep)

(* =============================== claims =============================== *)
InCS(p) == pc[p] \notin {"idle", "done"}

\* handler o, run by p, has finished its body and is about to unlock and return
AtReturn(p, o) == pc[p] = "unlock" /\ op[p] = o

\* no handler is in the middle of its body
Completed == \A p \in Procs : pc[p] \in {"idle", "done", "unlock"}

Count(mm) == Cardinality(DOMAIN mm)

\* the entries of mm other than those of the keys in ex are as in old
SameExcept(mm, old, ex) == \A x \in (DOMAIN mm) \ ex : x \in DOMAIN old /\ mm[x] = old[x]

\* C1: capacity invariant. For a cache built with capacity size > 0, after
\* every completed Set, Get, Keys or Close, under any interleaving, the store
\* holds at most size entries.
C1_Capacity == (made /\ Completed) => Count(m) <= size

\* C1 witness: a Set of an absent key into a full cache has completed and the
\* store is still exactly at capacity.
C1_Witness ==
  \E p \in Procs : /\ AtReturn(p, "Set") /\ ~res[p].fault
                   /\ key[p] \notin DOMAIN pre.m
                   /\ Count(pre.m) = size /\ Count(m) = size

\* C2: store/ledger agreement. After every completed call a key is in the
\* store iff it is in the ledger c.keys, and the ledger has no duplicates.
C2_Agreement ==
  (made /\ Completed) =>
     /\ DOMAIN m = Range(keys)
     /\ Len(keys) = Cardinality(Range(keys))
     /\ Len(keys) = Count(m)

\* C2 witness: a Get has purged an expired entry from a store that held
\* other entries too, which are still there.
C2_Witness ==
  \E p \in Procs : /\ AtReturn(p, "Get")
                   /\ key[p] \in DOMAIN pre.m /\ key[p] \notin DOMAIN m
                   /\ keys # <<>>

\* C3: eviction rule. A Set of an absent key removes an entry only when the
\* store is at capacity; it then removes exactly the entry at the head of the
\* ledger, expired or not, from store and ledger, and appends the new key at
\* the tail. Below capacity the Set removes nothing.
C3_Eviction ==
  \A p \in Procs :
    (AtReturn(p, "Set") /\ key[p] \notin DOMAIN pre.m /\ ~res[p].fault) =>
       /\ SameExcept(m, pre.m, {key[p]})
       /\ IF Count(pre.m) = size
          THEN /\ (DOMAIN pre.m) \ (DOMAIN m) = {pre.keys[1]}
               /\ keys = Append(Tail(pre.keys), key[p])
          ELSE /\ Count(pre.m) < size
               /\ (DOMAIN pre.m) \ (DOMAIN m) = {}
               /\ keys = Append(pre.keys, key[p])
       /\ key[p] \in DOMAIN m

\* C3 witness: the Set evicted a head entry that had not expired while an
\* expired entry stayed in the store.
C3_Witness ==
  \E p \in Procs :
    /\ AtReturn(p, "Set") /\ key[p] \notin DOMAIN pre.m /\ Count(pre.m) = size
    /\ pre.keys[1] \notin DOMAIN m
    /\ tnow[p] <= pre.m[pre.keys[1]].expiration
    /\ \E x \in DOMAIN m : x # key[p] /\ tnow[p] > m[x].expiration

\* C4: refresh keeps eviction priority. A Set on a key already stored (expired
\* or not) overwrites the value, resets the expiration to now + ttl and leaves
\* the ledger and the set of stored keys unchanged; hence a later Set of an
\* absent key into the full cache evicts the ledger's head even when the head
\* was refreshed after every other key was inserted.
C4_Refresh ==
  \A p \in Procs :
    /\ (AtReturn(p, "Set") /\ key[p] \in DOMAIN pre.m) =>
         /\ ~res[p].fault
         /\ DOMAIN m = DOMAIN pre.m
         /\ m[key[p]] = [value |-> val[p], expiration |-> tnow[p] + ttl]
         /\ SameExcept(m, pre.m, {key[p]})
         /\ keys = pre.keys
    /\ (/\ AtReturn(p, "Set") /\ key[p] \notin DOMAIN pre.m /\ Count(pre.m) = size
        /\ ~res[p].fault
        /\ \E x \in DOMAIN pre.m : pre.m[pre.keys[1]].expiration > pre.m[x].expiration)
       => pre.keys[1] \notin DOMAIN m

\* C4 witness: an entry already expired was refreshed with a new value.
C4_Witness ==
  \E p \in Procs :
    /\ AtReturn(p, "Set") /\ key[p] \in DOMAIN pre.m
    /\ tnow[p] > pre.m[key[p]].expiration
    /\ pre.m[key[p]].value # val[p]
    /\ Len(keys) = 2 /\ keys[1] = key[p]

\* C5 as stated: a Get on a stored key with now >= expiresAt, the instant
\* now = expiresAt included, returns not-found and removes the entry from
\* store and ledger, so that Keys() no longer lists the key.
C5_AsStated ==
  \A p \in Procs :
    (/\ AtReturn(p, "Get") /\ key[p] \in DOMAIN pre.m
     /\ tnow[p] >= pre.m[key[p]].expiration)
    => /\ ~res[p].found
       /\ key[p] \notin DOMAIN m
       /\ key[p] \notin Range(keys)
       /\ key[p] \notin Range(liveKeys(keys, m))

\* C5 amended: a Get on a stored key with now > expiresAt returns not-found
\* and removes the entry from store and ledger, so that Keys() no longer lists
\* the key; at the instant now = expiresAt the entry is still returned as
\* found and stays in store and ledger.
C5_LazyExpiration ==
  \A p \in Procs :
    (AtReturn(p, "Get") /\ key[p] \in DOMAIN pre.m) =>
       IF tnow[p] > pre.m[key[p]].expiration
       THEN /\ ~res[p].found
            /\ key[p] \notin DOMAIN m
            /\ key[p] \notin Range(keys)
            /\ key[p] \notin Range(liveKeys(keys, m))
            /\ SameExcept(m, pre.m, {})
            /\ (DOMAIN pre.m) \ (DOMAIN m) = {key[p]}
       ELSE /\ res[p].found /\ res[p].value = pre.m[key[p]].value
            /\ Cur = pre

\* C5 witness: a Get found its key expired and purged it.
C5_Witness ==
  \E p \in Procs :
    /\ AtReturn(p, "Get") /\ key[p] \in DOMAIN pre.m
    /\ tnow[p] > pre.m[key[p]].expiration
    /\ ~res[p].found /\ key[p] \notin DOMAIN m

\* C6: Set/Get round trip. A Get that reads the clock less than ttl after the
\* last Set(k, v), with no Set(k), eviction of k or Close in between, returns
\* (v, true); a Get never returns found with a value other than the one of
\* the most recent Set of its key.
C6_RoundTrip ==
  \A p \in Procs :
    AtReturn(p, "Get") =>
      LET f == fresh[key[p]] IN
      /\ res[p].found => (f.set /\ res[p].value = f.value)
      /\ (f.set /\ now - f.at < ttl) => (res[p].found /\ res[p].value = f.value)

\* C6 witness: a Get returned the value of a Set made after the clock had
\* advanced, within ttl of that Set.
C6_Witness ==
  \E p \in Procs :
    /\ AtReturn(p, "Get") /\ res[p].found
    /\ fresh[key[p]].set /\ fresh[key[p]].at > 0
    /\ now - fresh[key[p]].at < ttl
    /\ res[p].value = fresh[key[p]].value

\* C7: FIFO window. After more than size insertions of absent keys with no
\* purge by an expiring Get in between, the store holds exactly the last size
\* keys inserted, the ledger lists them in insertion order, and every earlier
\* key is absent.
C7_Fifo ==
  (made /\ Completed /\ nins > size) =>
     /\ Len(ins) = size
     /\ keys = ins
     /\ DOMAIN m = Range(ins)
     /\ Cardinality(Range(ins)) = size

\* C7 witness: an overflow of a cache of capacity two or more has completed.
C7_Witness ==
  /\ made /\ Completed /\ nins > size /\ size >= 2
  /\ keys = ins /\ Count(m) = size

\* C8: mutual exclusion and atomicity. At most one call is inside its
\* critical section, the goroutine inside holds the lock for the whole body,
\* the store and ledger a call leaves are those its handler produces when run
\* alone on the state it found, and whenever the lock is free the cache state
\* is the one produced by running the returned calls one after another.
C8_Atomic ==
  /\ \A p, q \in Procs : (InCS(p) /\ InCS(q)) => p = q
  /\ \A p \in Procs : InCS(p) => mu = p
  /\ \A p \in Procs :
       pc[p] = "unlock" =>
         Cur = SeqOp(op[p], pre, key[p], val[p], tnow[p], size, ttl).st
  /\ mu = Free => Cur = ret

\* C8 witness: a Set is between its store update and its ledger update, holding
\* the lock, while another goroutine is outside.
C8_Witness ==
  \E p, q \in Procs :
    /\ p # q /\ pc[p] = "SetAppend" /\ mu = p /\ pc[q] = "idle"
    /\ key[p] \in DOMAIN m /\ key[p] \notin Range(keys)

\* C9: real-time ordering. A call that enters after other calls returned works
\* on the state that holds the effects of all of them, and returns what its
\* handler returns on that state: the serialization never places it before a
\* call that had returned.
C9_RealTime ==
  \A p \in Procs :
    /\ InCS(p) => pre = ret
    /\ pc[p] = "unlock" =>
         res[p] = SeqOp(op[p], ret, key[p], val[p], tnow[p], size, ttl).res

\* C9 witness: a Keys call lists, in order, the two keys inserted by Set calls
\* that returned before it entered.
C9_Witness ==
  \E p \in Procs :
    /\ AtReturn(p, "Keys") /\ pre = ret
    /\ Len(res[p].keys) = 2 /\ res[p].keys = ret.keys

\* C10: concurrent termination. With every goroutine of the concurrency check
\* scheduled fairly, no Set faults, every Set that entered returns, every
\* goroutine finishes its loop and wg.Wait returns.
C10_Termination ==
  /\ [](\A p \in Procs : ~res[p].fault)
  /\ \A p \in Procs : [](InCS(p) => <>(~InCS(p)))
  /\ <>[](mainpc = "ok" /\ mu = Free /\ \A p \in Procs : pc[p] = "done" /\ cnt[p] = MaxCount)

\* C10 witness: wg.Wait has returned after every goroutine made all its Set
\* calls on a cache that had to evict.
C10_Witness ==
  /\ mainpc = "ok" /\ wg = 0
  /\ \A p \in Procs : pc[p] = "done" /\ cnt[p] = MaxCount
  /\ nins > size

\* C11: Set never fails under correct usage. On a constructed cache that is
\* not closed every Set completes without fault: the eviction branch is never
\* entered with an empty ledger, also with capacity 1. Right after it the key
\* is stored with the given value and expiration now + ttl, so a Set never
\* evicts the key it inserts.
C11_SetTotal ==
  \A p \in Procs :
    /\ (pc[p] \in {"SetEvict", "SetSlice"} /\ ~mnil) => keys # <<>>
    /\ (AtReturn(p, "Set") /\ ~pre.mnil) =>
         /\ ~res[p].fault
         /\ key[p] \in DOMAIN m
         /\ m[key[p]] = [value |-> val[p], expiration |-> tnow[p] + ttl]
         /\ key[p] \in Range(keys)

\* C11 witness: a Set of an absent key into a full cache of capacity 1 has
\* evicted the only entry and stored its own.
C11_Witness ==
  \E p \in Procs :
    /\ AtReturn(p, "Set") /\ ~pre.mnil /\ size = 1
    /\ Count(pre.m) = 1 /\ key[p] \notin DOMAIN pre.m
    /\ DOMAIN m = {key[p]} /\ keys = <<key[p]>>

\* C12: read frame condition. A Get on an absent key, or on a stored key that
\* has not expired, changes neither store nor ledger and evicts nothing; the
\* same Get repeated on the key returns the same value again.
C12_ReadFrame ==
  \A p \in Procs :
    (/\ AtReturn(p, "Get")
     /\ key[p] \in DOMAIN pre.m => tnow[p] <= pre.m[key[p]].expiration)
    => /\ Cur = pre
       /\ res[p].found = (key[p] \in DOMAIN pre.m)
       /\ res[p].found => res[p].value = pre.m[key[p]].value
       /\ SeqGet(Cur, key[p], tnow[p]) = [st |-> pre, res |-> res[p]]

\* C12 witness: a Get returned the value of an entry that shares a full store
\* with another entry, and left both in place.
C12_Witness ==
  \E p \in Procs :
    /\ AtReturn(p, "Get") /\ res[p].found
    /\ Count(m) = 2 /\ size = 2 /\ Cur = pre

\* C13: Keys() snapshot. Keys returns exactly the keys in the store, each once,
\* oldest first in the order in which they were last inserted from absence
\* (a refresh does not count), entries that expired but were not purged
\* included, and it changes neither store nor ledger.
C13_KeysSnapshot ==
  \A p \in Procs :
    AtReturn(p, "Keys") =>
      /\ res[p].keys = ord
      /\ Range(res[p].keys) = DOMAIN m
      /\ Len(res[p].keys) = Count(m)
      /\ Cur = pre

\* C13 witness: Keys lists two keys, the first refreshed after the second was
\* inserted, the second already expired.
C13_Witness ==
  \E p \in Procs :
    /\ AtReturn(p, "Keys") /\ Len(res[p].keys) = 2
    /\ m[res[p].keys[1]].expiration > m[res[p].keys[2]].expiration
    /\ now > m[res[p].keys[2]].expiration

\* C14: construction validation. New(size, ttl) returns an error and no cache
\* when size <= 0 or ttl <= 0, the size error when both are invalid; with
\* size > 0 and ttl > 0 it returns no error and a cache with an empty store
\* and an empty ledger.
C14_Construction ==
  /\ (made \/ err # "") =>
       LET sz == nargs[1]
           d == nargs[2]
       IN  /\ sz <= 0 => (~made /\ err = "size must be positive")
           /\ (sz > 0 /\ d <= 0) => (~made /\ err = "ttl must be positive")
           /\ (sz > 0 /\ d > 0) => (made /\ err = "" /\ size = sz /\ ttl = d)
  /\ mainpc = "built" => (made /\ m = EmptyMap /\ ~mnil /\ keys = <<>> /\ mu = Free)

\* C14 witness: New was called with both arguments invalid and returned the
\* size error.
C14_Witness ==
  /\ nargs[1] <= 0 /\ nargs[2] <= 0 /\ ~made
  /\ err = "size must be positive"

\* C15: entry life cycle. A stored key leaves the store only by (a) a Set of
\* another, absent key into the full store while this key heads the ledger,
\* (b) a Get of this key that finds it expired, or (c) Close; a key enters the
\* store only by a Set of it, and a Set of an absent key puts it at the tail
\* of the ledger as the newest entry.
C15_Step ==
  \A k \in Key :
    /\ (k \in DOMAIN m /\ k \notin DOMAIN m') =>
         \E p \in Procs :
           /\ pc'[p] # pc[p]
           /\ \/ /\ pc[p] = "SetEvict" /\ key[p] # k /\ key[p] \notin DOMAIN m
                 /\ Count(m) = size /\ keys[1] = k
              \/ /\ pc[p] = "GetDelete" /\ key[p] = k
                 /\ tnow[p] > m[k].expiration
              \/ pc[p] = "CloseMap"
    /\ (k \notin DOMAIN m /\ k \in DOMAIN m') =>
         \E p \in Procs : pc[p] = "SetInsert" /\ key[p] = k /\ pc'[p] # pc[p]

C15_Tail ==
  \A p \in Procs :
    (AtReturn(p, "Set") /\ key[p] \notin DOMAIN pre.m /\ ~res[p].fault) =>
       /\ keys[Len(keys)] = key[p]
       /\ ord[Len(ord)] = key[p]

C15_LifeCycle == [][C15_Step]_vars /\ []C15_Tail

\* C15 witness: the key purged last has been inserted again and stands at the
\* tail of the ledger, behind a key that was inserted after its first life.
C15_Witness ==
  \E p \in Procs :
    /\ AtReturn(p, "Set") /\ gone = key[p] /\ key[p] \notin DOMAIN pre.m
    /\ Len(keys) = 2 /\ keys[2] = key[p]

\* C16: Close clears the cache atomically. Close holds the lock, leaves store
\* and ledger empty, no other call runs while the store is cleared and the
\* ledger is not, and a second Close changes nothing and does not fault.
C16_CloseAtomic ==
  /\ \A p \in Procs :
       /\ pc[p] \in {"CloseMap", "CloseKeys"} => mu = p
       /\ AtReturn(p, "Close") =>
            /\ mu = p /\ ~res[p].fault
            /\ m = EmptyMap /\ mnil /\ keys = <<>>
            /\ pre.mnil => Cur = pre
  /\ (mnil /\ keys # <<>>) => \A q \in Procs : InCS(q) => pc[q] = "CloseKeys"

\* C16 witness: a Close of a cache holding entries has cleared both.
C16_Witness ==
  \E p \in Procs :
    /\ AtReturn(p, "Close") /\ Count(pre.m) >= 1 /\ pre.keys # <<>>
    /\ m = EmptyMap /\ keys = <<>>

\* C19: closed is absorbing. Once Close has cleared the map it stays nil and
\* empty: a later Get returns not-found, a later Keys the empty sequence, a
\* later Set faults on the write to the nil map and inserts nothing, store and
\* ledger stay empty, and the lock is released by every call that returns.
C19_Closed ==
  /\ mnil => Count(m) = 0
  /\ \A p \in Procs :
       /\ mu = p => InCS(p)
       /\ (pc[p] = "unlock" /\ pre.mnil) =>
            /\ Cur = pre /\ m = EmptyMap /\ keys = <<>>
            /\ op[p] = "Get" => ~res[p].found
            /\ op[p] = "Keys" => res[p].keys = <<>>
            /\ op[p] = "Set" => res[p].fault
            /\ op[p] # "Set" => ~res[p].fault

C19_ClosedAbsorbing == [][mnil => mnil']_vars /\ []C19_Closed

\* C19 witness: a Set on the closed cache has faulted and is about to unlock.
C19_Witness ==
  \E p \in Procs :
    /\ AtReturn(p, "Set") /\ pre.mnil /\ res[p].fault
    /\ m = EmptyMap /\ keys = <<>>

\* C17: NextMovie returns BestNextMovie's result if it finished before ctx
\* expired; in particular, whenever the result was already in the channel
\* when ctx expired, the movie returned is BestNextMovie's, not defaultMovie.
C17_AsStated == (npc = "ret" /\ atexp) => out = bestMovie

C18_Partition ==
  vpc = "ret" =>
    LET n == Len(files)
        all == okIdx \o badIdx
    IN  /\ Len(all) = n /\ Range(all) = 1..n
        /\ Len(okFiles) = Len(okIdx) /\ Len(badFiles) = Len(badIdx)
        /\ \A j \in 1..Len(okIdx) : okFiles[j] = files[okIdx[j]].Name
        /\ \A j \in 1..Len(badIdx) : badFiles[j] = files[badIdx[j]].Name
        /\ \A i \in 1..n :
             i \in Range(okIdx) <=>
               /\ Sha1Hex(files[i].Content) = files[i].Signature
               /\ reply[i].err = Nil
        /\ rerr = Nil

\* C18 witness: two files of the same name, the second answered first and
\* good, the first bad.
C18_Witness ==
  /\ vpc = "ret" /\ Len(files) = 2 /\ files[1].Name = files[2].Name
  /\ okIdx = <<2>> /\ badIdx = <<1>>
  /\ okFiles = <<files[2].Name>> /\ badFiles = <<files[1].Name>>

\* C21: ValidateSigs terminates cleanly. Under fair scheduling it returns for
\* every list of n files; when it has returned it has received exactly n
\* replies and each of the n signWorkers has completed its send, none is left
\* running or blocked; with n = 0 no goroutine is started and no reply awaited.
C21_Clean ==
  /\ vpc = "ret" =>
       /\ recvd = Len(files)
       /\ \A w \in Workers :
            wk[w] = IF w <= Len(files) THEN "done" ELSE "none"
  /\ Len(files) = 0 => (recvd = 0 /\ \A w \in Workers : wk[w] = "none")

C21_Terminates == <>(vpc = "ret") /\ []C21_Clean

\* C21 witness: ValidateSigs returned after two replies, both senders done.
C21_Witness ==
  /\ vpc = "ret" /\ Len(files) = 2 /\ recvd = 2
  /\ wk[1] = "done" /\ wk[2] = "done"

\* C22: worker/producer shutdown. producer has closed jobs whenever it has
\* returned, on every exit path, and every worker eventually returns once ctx
\* is cancelled or jobs is closed and drained: it never stays blocked for
\* ever, also not in its send on results.
C22_AsStated ==
  /\ [](ppc = "ret" => jclosed)
  /\ \A w \in RWorkers :
       (cancelled \/ (jclosed /\ jobs = <<>>)) ~> (rpc[w] = "ret")

====
